---- MODULE Spec2Model ----
(***************************************************************************)
(* Model of fastapi_crudrouter/core/sqlalchemy.py: the six CRUD handlers   *)
(* of SQLAlchemyCRUDRouter (blocking) and SQLAlchemyAsyncCRUDRouter        *)
(* (non-blocking) over one table with a primary key column "id", a unique  *)
(* column "name" and a plain column "val" that has a server default.       *)
(*                                                                         *)
(* A handler is an operator from (committed table, request) to the         *)
(* committed table afterwards, the session it leaves behind, the outcome   *)
(* and the response body.  The actions apply the handler of the router     *)
(* that was constructed and keep the request and the response in `resp`.   *)
(***************************************************************************)
EXTENDS Integers, Sequences, FiniteSets, TLC

\* ------------------------------------------------------------------ bounds
MaxKey == 2
MaxSkip == 2
MaxLimit == 2

Keys == 1..MaxKey
Names == {"a", "b"}
Vals == {0, 1}
\* the primary keys an update payload may carry
PayloadKeys == {1}
\* the values a payload may give val (the column default is the other one)
PayloadVals == {1}

\* ------------------------------------------------------- the record type
\* self._pk: the key of the first primary-key column of db_model
pk == "id"
\* the mapped attributes of db_model
Columns == {"id", "name", "val"}
\* the rows the table can hold
Rows == [id : Keys, name : Names, val : Vals]

\* dict values
Get(d, k, dflt) == IF k \in DOMAIN d THEN d[k] ELSE dflt
\* an empty dict
NoDict == [k \in {} |-> 0]

Min2(a, b) == IF a <= b THEN a ELSE b

\* ------------------------------------------------------------ the backend
\* Faults of the persistence engine that do not come from the table's own
\* constraints: a write statement rejected for an integrity violation
\* (foreign key, check constraint), or the COMMIT failing (connection lost).
NoFault == [at |-> "never", exc |-> "none"]
Faults ==
  { NoFault,
    [at |-> "write", exc |-> "IntegrityError"],
    [at |-> "commit", exc |-> "OperationalError"] }

\* the row with primary key id, as a sequence of zero or one row
RowOf(rows, id) ==
  IF \E r \in rows : r.id = id
  THEN << CHOOSE r \in rows : r.id = id >>
  ELSE << >>

\* ORDER BY pk ASC
RECURSIVE OrderBy(_)
OrderBy(rows) ==
  IF rows = {} THEN << >>
  ELSE LET m == CHOOSE r \in rows : \A q \in rows : r.id <= q.id
       IN << m >> \o OrderBy(rows \ {m})

\* mutant of LimitOffset: the limit is cut before the offset is dropped
LimitOffset_limit_first(s, limit, skip) ==
  LET kept == IF limit = << >> THEN s
              ELSE SubSeq(s, 1, Min2(limit[1], Len(s)))
  IN SubSeq(kept, skip + 1, Len(kept))

\* ... LIMIT limit OFFSET skip; limit is << >> (None) or << n >>
LimitOffset(s, limit, skip) ==
  LET rest == SubSeq(s, skip + 1, Len(s))
  IN IF limit = << >> THEN rest
     ELSE SubSeq(rest, 1, Min2(limit[1], Len(rest)))

\* the key an INSERT without primary key gets (autoincrement)
NextKey(rows) ==
  IF rows = {} THEN 1
  ELSE (CHOOSE k \in {r.id : r \in rows} : \A r \in rows : r.id <= k) + 1

\* the row an INSERT of the attributes attrs writes: missing primary key
\* is assigned by the backend, missing val takes the column default
InsertRow(rows, attrs) ==
  [id |-> Get(attrs, "id", NextKey(rows)),
   name |-> attrs["name"],
   val |-> Get(attrs, "val", 0)]

\* primary key and unique(name) hold of the table
Integrity(rows) ==
  \A r, q \in rows : (r.id = q.id \/ r.name = q.name) => r = q

\* one statement of the unit of work applied to the rows of the open
\* transaction: [rows, exc, key]
Statement(rows, st, fault) ==
  IF fault.at = "write"
  THEN [rows |-> rows, exc |-> fault.exc, key |-> << >>]
  ELSE IF st.kind = "INSERT"
  THEN LET row == InsertRow(rows, st.attrs)
       IN IF \E r \in rows : r.id = row.id \/ r.name = row.name
          THEN [rows |-> rows, exc |-> "IntegrityError", key |-> << >>]
          ELSE [rows |-> rows \cup {row}, exc |-> "none", key |-> << row.id >>]
  ELSE IF st.kind = "UPDATE"
  THEN LET old == RowOf(rows, st.key)
       IN IF old = << >>
          THEN [rows |-> rows, exc |-> "StaleDataError", key |-> << >>]
          ELSE LET new == [c \in Columns |-> Get(st.set, c, old[1][c])]
                   others == rows \ {old[1]}
               IN IF \E r \in others : r.id = new.id \/ r.name = new.name
                  THEN [rows |-> rows, exc |-> "IntegrityError", key |-> << >>]
                  ELSE [rows |-> others \cup {new}, exc |-> "none",
                        key |-> << new.id >>]
  ELSE \* DELETE: a row that is gone is a warning of the ORM, not an error
       [rows |-> {r \in rows : r.id # st.key}, exc |-> "none", key |-> << >>]

\* ------------------------------------------------------------ the session
\* What a handler gets from Depends(self.db_func): a session of its own.
\* txn: "none" (no transaction begun), "active", or "inactive" (a flush
\* failed and the session waits for rollback()); wrote: the open
\* transaction holds a write that is neither committed nor rolled back;
\* work: the rows as the open transaction sees them; pending: the
\* statements of the unit of work not yet flushed; calls: the session calls
\* the handler has made, in order.
NewSession ==
  [txn |-> "none", wrote |-> FALSE, work |-> {}, pending |-> << >>,
   calls |-> << >>]

Ret(db, s, exc, val) == [db |-> db, s |-> s, exc |-> exc, val |-> val]

\* a transaction begins with the first use of the session
Begin(db, s) ==
  IF s.txn = "none" THEN [s EXCEPT !.txn = "active", !.work = db] ELSE s

Called(s, c) == [s EXCEPT !.calls = Append(@, c)]

\* db.query(M).order_by(pk).limit(limit).offset(skip).all(): a list of
\* instances
Query_all(db, s, limit, skip) ==
  LET s1 == Begin(db, Called(s, "select"))
  IN Ret(db, s1, "none", LimitOffset(OrderBy(s1.work), limit, skip))

\* db.execute(select(M).order_by(pk).limit(limit).offset(skip)).all(): a
\* list of one-column rows
Execute_select(db, s, limit, skip) ==
  LET s1 == Begin(db, Called(s, "select"))
      found == LimitOffset(OrderBy(s1.work), limit, skip)
  IN Ret(db, s1, "none", [i \in 1..Len(found) |-> << found[i] >>])

\* db.query(M).get(item_id): the instance, or None (<< >>)
Query_get(db, s, item_id) ==
  LET s1 == Begin(db, Called(s, "select"))
  IN Ret(db, s1, "none", RowOf(s1.work, item_id))

\* db.execute(select(M).where(pk == item_id)): the matching one-column rows
Execute_select_where(db, s, item_id) ==
  LET s1 == Begin(db, Called(s, "select"))
      found == OrderBy({r \in s1.work : r[pk] = item_id})
  IN Ret(db, s1, "none", [i \in 1..Len(found) |-> << found[i] >>])

\* Result.scalar(): first column of the first row, or None (<< >>)
Scalar(res) == IF Len(res) = 0 THEN << >> ELSE << res[1][1] >>

\* db.add(instance): the INSERT waits for the flush
Session_add(s, attrs) ==
  [Called(s, "add") EXCEPT
     !.pending = Append(@, [kind |-> "INSERT", attrs |-> attrs])]

\* setattr on a persistent instance: the attributes whose value changed
\* are written by one UPDATE at the flush
Session_setattr(s, instance, items) ==
  LET set == [k \in {a \in DOMAIN items : items[a] # instance[a]}
                |-> items[k]]
      s1 == IF DOMAIN items = {} THEN s ELSE Called(s, "setattr")
  IN IF DOMAIN set = {} THEN s1
     ELSE [s1 EXCEPT !.pending =
             Append(@, [kind |-> "UPDATE", key |-> instance[pk],
                        set |-> set])]

\* db.delete(instance): the DELETE waits for the flush
Session_delete(s, instance) ==
  [Called(s, "delete") EXCEPT
     !.pending = Append(@, [kind |-> "DELETE", key |-> instance[pk]])]

\* the result r handed to what follows it
Then(r, K(_)) == K(r)

\* the pending statements in order; the first failure stops the flush
RECURSIVE ApplyAll(_, _, _)
ApplyAll(rows, sts, fault) ==
  IF sts = << >> THEN [rows |-> rows, exc |-> "none", key |-> << >>]
  ELSE Then(Statement(rows, Head(sts), fault), LAMBDA r :
         IF r.exc # "none" \/ Len(sts) = 1 THEN r
         ELSE ApplyAll(r.rows, Tail(sts), NoFault))

\* Session.flush(): on failure the session's transaction is rolled back
\* inside the flush and the session stays inactive until rollback()
Session_flush(db, s, fault) ==
  Then(ApplyAll(s.work, s.pending, fault), LAMBDA r :
    IF r.exc # "none"
    THEN Ret(db, [s EXCEPT !.txn = "inactive", !.work = db,
                           !.wrote = FALSE], r.exc, << >>)
    ELSE Ret(db, [s EXCEPT !.work = r.rows, !.pending = << >>,
                           !.wrote = @ \/ s.pending # << >>],
             "none", r.key))

\* db.commit(): flush, then COMMIT; val is the key of the flushed instance
Session_commit(db, s, fault) ==
  Then(Session_flush(db, Begin(db, Called(s, "commit")), fault), LAMBDA f :
    IF f.exc # "none" THEN f
    ELSE IF fault.at = "commit" THEN Ret(db, f.s, fault.exc, << >>)
    ELSE Ret(f.s.work,
             [f.s EXCEPT !.txn = "none", !.wrote = FALSE, !.work = {}],
             "none", f.val))

\* db.rollback()
Session_rollback(db, s) ==
  Ret(db, [Called(s, "rollback") EXCEPT !.txn = "none", !.wrote = FALSE,
             !.work = {}, !.pending = << >>], "none", << >>)

\* db.refresh(instance): reload the row of the instance's key
Session_refresh(db, s, key) ==
  LET s1 == Begin(db, Called(s, "refresh"))
      row == RowOf(s1.work, key)
  IN IF row = << >> THEN Ret(db, s1, "InvalidRequestError", << >>)
     ELSE Ret(db, s1, "none", row)

\* db.query(M).delete() and db.execute(delete(M)): DELETE FROM the table,
\* executed at once inside the transaction
Bulk_delete(db, s, fault) ==
  LET s1 == Begin(db, Called(s, "delete"))
  IN IF fault.at = "write" THEN Ret(db, s1, fault.exc, << >>)
     ELSE Ret(db, [s1 EXCEPT !.work = {}, !.wrote = TRUE], "none", << >>)

\* ------------------------------------------------------------- handlers
\* What a handler hands to the caller: the committed rows, the session as
\* the handler leaves it, the outcome ("ok", "NotFound" for NOT_FOUND,
\* "Conflict" for HTTPException(422), or the name of a backend exception
\* that passed through) and the body, a sequence of records.
Done(r, outcome, body) ==
  [db |-> r.db, s |-> r.s, outcome |-> outcome, body |-> body]

\* an exception the handler does not catch
Raised(r) ==
  Done(r, IF r.exc = "NOT_FOUND" THEN "NotFound" ELSE r.exc, << >>)

\* raise HTTPException(422, "Key already exists") from None
raise_HTTPException_422(r) == Done(r, "Conflict", << >>)

\* self._raise(e) of CRUDGenerator: the integrity error is surfaced as the
\* classified error Conflict
CRUDGenerator_raise(r) == Done(r, "Conflict", << >>)

\* hasattr(db_model, key)
hasattr(instance, key) == key \in DOMAIN instance

\* mutant of dict_exclude_pk: model.dict() with nothing excluded
dict_keep_pk(model) == model

\* model.dict(exclude={self._pk})
dict_exclude_pk(model) == [k \in DOMAIN model \ {pk} |-> model[k]]

\* mutant of update_items: one unknown field and no field is applied
update_items_strict(instance, model) ==
  LET items == dict_exclude_pk(model)
  IN IF \A a \in DOMAIN items : hasattr(instance, a) THEN items ELSE NoDict

\* the items of the update loop that pass hasattr
update_items(instance, model) ==
  LET items == dict_exclude_pk(model)
  IN [k \in {a \in DOMAIN items : hasattr(instance, a)} |-> items[k]]

\* ---- SQLAlchemyCRUDRouter
Sync_get_all(db, s, pagination) ==
  Then(Query_all(db, s, pagination.limit, pagination.skip), LAMBDA q :
    Done(q, "ok", q.val))

\* mutant of Sync_get_one: the record read is taken out of the table
Sync_get_one_consuming(db, s, item_id) ==
  Then(Query_get(db, s, item_id), LAMBDA q :
    IF q.val # << >>
    THEN Then(Session_commit(q.db, Session_delete(q.s, q.val[1]), NoFault),
              LAMBDA c : Ret(c.db, c.s, "none", q.val))
    ELSE Ret(q.db, q.s, "NOT_FOUND", << >>))

Sync_get_one(db, s, item_id) ==
  Then(Query_get(db, s, item_id), LAMBDA q :
    IF q.val # << >> THEN q
    ELSE Ret(q.db, q.s, "NOT_FOUND", << >>))

\* mutant of Sync_create: no except clause
Sync_create_no_except(db, s, model, fault) ==
  Then(Session_commit(db, Session_add(s, model), fault), LAMBDA c :
    IF c.exc = "none"
    THEN Then(Session_refresh(c.db, c.s, c.val[1]), LAMBDA r :
           IF r.exc = "none" THEN Done(r, "ok", r.val) ELSE Raised(r))
    ELSE Raised(c))

\* mutant of Sync_create: the instance is returned without refresh
Sync_create_no_refresh(db, s, model, fault) ==
  Then(Session_commit(db, Session_add(s, model), fault), LAMBDA c :
    IF c.exc = "none" THEN Done(c, "ok", << model >>)
    ELSE IF c.exc = "IntegrityError"
    THEN raise_HTTPException_422(Session_rollback(c.db, c.s))
    ELSE Raised(c))

Sync_create(db, s, model, fault) ==
  Then(Session_commit(db, Session_add(s, model), fault), LAMBDA c :
    IF c.exc = "none"
    THEN Then(Session_refresh(c.db, c.s, c.val[1]), LAMBDA r :
           IF r.exc = "none" THEN Done(r, "ok", r.val) ELSE Raised(r))
    ELSE IF c.exc = "IntegrityError"
    THEN raise_HTTPException_422(Session_rollback(c.db, c.s))
    ELSE Raised(c))

\* mutant of Sync_update: no except clause
Sync_update_no_except(db, s, item_id, model, fault) ==
  Then(Sync_get_one(db, s, item_id), LAMBDA g :
    IF g.exc # "none" THEN Raised(g)
    ELSE Then(Session_commit(
                g.db,
                Session_setattr(g.s, g.val[1], update_items(g.val[1], model)),
                fault), LAMBDA c :
           IF c.exc = "none"
           THEN Then(Session_refresh(
                       c.db, c.s,
                       IF c.val = << >> THEN item_id ELSE c.val[1]),
                     LAMBDA r :
                       IF r.exc = "none" THEN Done(r, "ok", r.val)
                       ELSE Raised(r))
           ELSE Raised(c)))

\* mutant of Sync_update: db.refresh before db.commit
Sync_update_refresh_first(db, s, item_id, model, fault) ==
  Then(Sync_get_one(db, s, item_id), LAMBDA g :
    IF g.exc # "none" THEN Raised(g)
    ELSE Then(Session_refresh(
                g.db,
                Session_setattr(g.s, g.val[1], update_items(g.val[1], model)),
                item_id), LAMBDA r :
           IF r.exc # "none" THEN Raised(r)
           ELSE Then(Session_commit(r.db, r.s, fault), LAMBDA c :
                  IF c.exc = "none" THEN Done(c, "ok", r.val)
                  ELSE IF c.exc = "IntegrityError"
                  THEN CRUDGenerator_raise(Session_rollback(c.db, c.s))
                  ELSE Raised(c))))

Sync_update(db, s, item_id, model, fault) ==
  Then(Sync_get_one(db, s, item_id), LAMBDA g :
    IF g.exc # "none" THEN Raised(g)
    ELSE Then(Session_commit(
                g.db,
                Session_setattr(g.s, g.val[1], update_items(g.val[1], model)),
                fault), LAMBDA c :
           IF c.exc = "none"
           THEN Then(Session_refresh(
                       c.db, c.s,
                       IF c.val = << >> THEN item_id ELSE c.val[1]),
                     LAMBDA r :
                       IF r.exc = "none" THEN Done(r, "ok", r.val)
                       ELSE Raised(r))
           ELSE IF c.exc = "IntegrityError"
           THEN CRUDGenerator_raise(Session_rollback(c.db, c.s))
           ELSE Raised(c)))

\* mutant of Sync_delete_all: the DELETE is never committed
Sync_delete_all_no_commit(db, s, fault) ==
  Then(Bulk_delete(db, s, fault), LAMBDA d :
    IF d.exc # "none" THEN Raised(d)
    ELSE Sync_get_all(d.db, d.s, [skip |-> 0, limit |-> << >>]))

Sync_delete_all(db, s, fault) ==
  Then(Bulk_delete(db, s, fault), LAMBDA d :
    IF d.exc # "none" THEN Raised(d)
    ELSE Then(Session_commit(d.db, d.s, fault), LAMBDA c :
           IF c.exc # "none" THEN Raised(c)
           ELSE Sync_get_all(c.db, c.s, [skip |-> 0, limit |-> << >>])))

\* mutant of Sync_delete_one: the record is not looked up first
Sync_delete_one_unchecked(db, s, item_id, fault) ==
  Then(Session_commit(db, Session_delete(s, [id |-> item_id]), fault),
       LAMBDA c :
         IF c.exc # "none" THEN Raised(c)
         ELSE Done(c, "ok", RowOf(db, item_id)))

\* mutant of Sync_delete_one: the DELETE has no WHERE clause
Sync_delete_one_unfiltered(db, s, item_id, fault) ==
  Then(Sync_get_one(db, s, item_id), LAMBDA g :
    IF g.exc # "none" THEN Raised(g)
    ELSE Then(Bulk_delete(g.db, g.s, fault), LAMBDA d :
           IF d.exc # "none" THEN Raised(d)
           ELSE Then(Session_commit(d.db, d.s, fault), LAMBDA c :
                  IF c.exc # "none" THEN Raised(c)
                  ELSE Done(c, "ok", g.val))))

Sync_delete_one(db, s, item_id, fault) ==
  Then(Sync_get_one(db, s, item_id), LAMBDA g :
    IF g.exc # "none" THEN Raised(g)
    ELSE Then(Session_commit(g.db, Session_delete(g.s, g.val[1]), fault),
              LAMBDA c :
                IF c.exc # "none" THEN Raised(c)
                ELSE Done(c, "ok", g.val)))

\* ---- SQLAlchemyAsyncCRUDRouter
Async_get_all(db, s, pagination) ==
  Then(Execute_select(db, s, pagination.limit, pagination.skip), LAMBDA res :
    Done(res, "ok", [i \in 1..Len(res.val) |-> res.val[i][1]]))

Async_get_one(db, s, item_id) ==
  Then(Execute_select_where(db, s, item_id), LAMBDA res :
    IF Scalar(res.val) # << >>
    THEN Ret(res.db, res.s, "none", Scalar(res.val))
    ELSE Ret(res.db, res.s, "NOT_FOUND", << >>))

\* mutant of Async_create: one more attempt after the rollback
Async_create_retry(db, s, model, fault) ==
  Then(Session_commit(db, Session_add(s, model), fault), LAMBDA c :
    IF c.exc = "none"
    THEN Then(Session_refresh(c.db, c.s, c.val[1]), LAMBDA r :
           IF r.exc = "none" THEN Done(r, "ok", r.val) ELSE Raised(r))
    ELSE IF c.exc = "IntegrityError"
    THEN Then(Session_rollback(c.db, c.s), LAMBDA b :
           Then(Session_commit(b.db, Session_add(b.s, model), NoFault),
                LAMBDA c2 :
                  IF c2.exc = "none"
                  THEN Then(Session_refresh(c2.db, c2.s, c2.val[1]),
                            LAMBDA r :
                              IF r.exc = "none" THEN Done(r, "ok", r.val)
                              ELSE Raised(r))
                  ELSE raise_HTTPException_422(
                         Session_rollback(c2.db, c2.s))))
    ELSE Raised(c))

Async_create(db, s, model, fault) ==
  Then(Session_commit(db, Session_add(s, model), fault), LAMBDA c :
    IF c.exc = "none"
    THEN Then(Session_refresh(c.db, c.s, c.val[1]), LAMBDA r :
           IF r.exc = "none" THEN Done(r, "ok", r.val) ELSE Raised(r))
    ELSE IF c.exc = "IntegrityError"
    THEN raise_HTTPException_422(Session_rollback(c.db, c.s))
    ELSE Raised(c))

\* mutant of Async_update: except Exception instead of except IntegrityError
Async_update_catch_all(db, s, item_id, model, fault) ==
  Then(Async_get_one(db, s, item_id), LAMBDA g :
    IF g.exc # "none" THEN Raised(g)
    ELSE Then(Session_commit(
                g.db,
                Session_setattr(g.s, g.val[1], update_items(g.val[1], model)),
                fault), LAMBDA c :
           IF c.exc = "none"
           THEN Then(Session_refresh(
                       c.db, c.s,
                       IF c.val = << >> THEN item_id ELSE c.val[1]),
                     LAMBDA r :
                       IF r.exc = "none" THEN Done(r, "ok", r.val)
                       ELSE Raised(r))
           ELSE CRUDGenerator_raise(Session_rollback(c.db, c.s))))

Async_update(db, s, item_id, model, fault) ==
  Then(Async_get_one(db, s, item_id), LAMBDA g :
    IF g.exc # "none" THEN Raised(g)
    ELSE Then(Session_commit(
                g.db,
                Session_setattr(g.s, g.val[1], update_items(g.val[1], model)),
                fault), LAMBDA c :
           IF c.exc = "none"
           THEN Then(Session_refresh(
                       c.db, c.s,
                       IF c.val = << >> THEN item_id ELSE c.val[1]),
                     LAMBDA r :
                       IF r.exc = "none" THEN Done(r, "ok", r.val)
                       ELSE Raised(r))
           ELSE IF c.exc = "IntegrityError"
           THEN CRUDGenerator_raise(Session_rollback(c.db, c.s))
           ELSE Raised(c)))

Async_delete_all(db, s, fault) ==
  Then(Bulk_delete(db, s, fault), LAMBDA d :
    IF d.exc # "none" THEN Raised(d)
    ELSE Then(Session_commit(d.db, d.s, fault), LAMBDA c :
           IF c.exc # "none" THEN Raised(c)
           ELSE Async_get_all(c.db, c.s, [skip |-> 0, limit |-> << >>])))

\* mutant of Async_delete_one: db.delete(db_model) is not awaited and so
\* never runs
Async_delete_one_no_await(db, s, item_id, fault) ==
  Then(Async_get_one(db, s, item_id), LAMBDA g :
    IF g.exc # "none" THEN Raised(g)
    ELSE Then(Session_commit(g.db, g.s, fault), LAMBDA c :
           IF c.exc # "none" THEN Raised(c)
           ELSE Done(c, "ok", g.val)))

Async_delete_one(db, s, item_id, fault) ==
  Then(Async_get_one(db, s, item_id), LAMBDA g :
    IF g.exc # "none" THEN Raised(g)
    ELSE Then(Session_commit(g.db, Session_delete(g.s, g.val[1]), fault),
              LAMBDA c :
                IF c.exc # "none" THEN Raised(c)
                ELSE Done(c, "ok", g.val)))

\* ------------------------------------------------------------- requests
\* d with the item k: v added
With(d, k, v) == [x \in DOMAIN d \cup {k} |-> IF x = k THEN v ELSE d[x]]

\* S and every dict of S with a field k added, its value drawn from V
Optional(S, k, V) == S \cup {With(d, k, v) : d \in S, v \in V}

\* create_schema(...).dict(): name is required, id and val are optional
CreateModels ==
  Optional(Optional({With(NoDict, "name", n) : n \in Names}, "id", Keys),
           "val", PayloadVals)

\* update_schema(...).dict(): any of id, name, val, and a field "extra"
\* that db_model does not have
UpdateModels ==
  Optional(Optional(Optional(Optional({NoDict}, "name", Names),
                             "val", PayloadVals), "id", PayloadKeys), "extra", {7})

\* pagination: skip >= 0, limit >= 1 or None (<< >>)
Paginations ==
  [skip : 0..MaxSkip, limit : {<< >>} \cup {<< n >> : n \in 1..MaxLimit}]

NoRequest ==
  [item_id |-> << >>, pagination |-> << >>, model |-> NoDict,
   fault |-> NoFault]

\* the route of one operation of one router class, on a session of its own
Route(variant, op, db, req) ==
  LET s == NewSession
      id == req.item_id[1]
  IN CASE op = "get_all" ->
            IF variant = "sync" THEN Sync_get_all(db, s, req.pagination)
            ELSE Async_get_all(db, s, req.pagination)
       [] op = "get_one" ->
            Then(IF variant = "sync" THEN Sync_get_one(db, s, id)
                 ELSE Async_get_one(db, s, id), LAMBDA g :
              IF g.exc = "none" THEN Done(g, "ok", g.val) ELSE Raised(g))
       [] op = "create" ->
            IF variant = "sync" THEN Sync_create(db, s, req.model, req.fault)
            ELSE Async_create(db, s, req.model, req.fault)
       [] op = "update" ->
            IF variant = "sync"
            THEN Sync_update(db, s, id, req.model, req.fault)
            ELSE Async_update(db, s, id, req.model, req.fault)
       [] op = "delete_one" ->
            IF variant = "sync" THEN Sync_delete_one(db, s, id, req.fault)
            ELSE Async_delete_one(db, s, id, req.fault)
       [] op = "delete_all" ->
            IF variant = "sync" THEN Sync_delete_all(db, s, req.fault)
            ELSE Async_delete_all(db, s, req.fault)

\* ---------------------------------------------------------------- state
\* ------------------------------------------------------------ constructor
\* the six routes; every *_route argument keeps its default, True
Routes ==
  {"get_all", "get_one", "create", "update", "delete_one", "delete_all"}

\* read schemas handed to the constructor, as their field names: one with
\* the primary key of the table, one without
Schemas == {{"id", "name", "val"}, {"name", "val"}}

\* a router object before __init__ has run
Unset(schema) ==
  [schema |-> schema, done |-> FALSE, db_model |-> "unset",
   db_func |-> "unset", pk |-> "unset", pk_type |-> "unset",
   routes |-> {}, error |-> "none"]

\* _utils.get_pk_type(schema, pk_field): the declared type of the field
get_pk_type(schema, pk_field) ==
  IF pk_field \in schema THEN [exc |-> "none", type |-> "int"]
  ELSE [exc |-> "SchemaMismatch", type |-> "unset"]

\* CRUDGenerator.__init__: generates and registers the handlers
CRUDGenerator_init(self) ==
  [self EXCEPT !.routes = Routes, !.done = TRUE]

\* mutant of SQLAlchemyCRUDRouter_init: super().__init__ before the key type
SQLAlchemyCRUDRouter_init_routes_first(self) ==
  Then(CRUDGenerator_init(
         [self EXCEPT !.db_model = "db_model", !.db_func = "db", !.pk = pk]),
       LAMBDA s1 :
         Then(get_pk_type(self.schema, s1.pk), LAMBDA t :
           IF t.exc # "none" THEN [s1 EXCEPT !.error = t.exc]
           ELSE [s1 EXCEPT !.pk_type = t.type]))

\* SQLAlchemyCRUDRouter.__init__ (inherited by the async router)
SQLAlchemyCRUDRouter_init(self) ==
  Then([self EXCEPT !.db_model = "db_model", !.db_func = "db", !.pk = pk],
       LAMBDA s1 :
         Then(get_pk_type(self.schema, s1.pk), LAMBDA t :
           IF t.exc # "none"
           THEN [s1 EXCEPT !.error = t.exc, !.done = TRUE]
           ELSE CRUDGenerator_init([s1 EXCEPT !.pk_type = t.type])))

VARIABLES
  router,  \* the router class that was constructed: "sync" or "async"
  setup,   \* the router object: its attributes and its registered routes
  store,   \* the committed rows of the table
  resp,    \* the last request, the table before it, and what it returned
  procs    \* the requests in flight at once, each on a session of its own

vars == << router, setup, store, resp, procs >>

Init ==
  /\ router \in {"sync", "async"}
  /\ \E schema \in Schemas : setup = Unset(schema)
  /\ store = {}
  /\ resp = [op |-> "none", req |-> NoRequest, pre |-> {},
             outcome |-> "ok", body |-> << >>, s |-> NewSession]
  /\ procs = << >>

\* the application constructs the router
Construct ==
  /\ ~setup.done
  /\ setup' = SQLAlchemyCRUDRouter_init(setup)
  /\ UNCHANGED << router, store, resp, procs >>

\* mutant of Respond: update and delete-one keep the instance on the router
Respond_keeps_instance(op, req, h) ==
  /\ store' = h.db
  /\ resp' = [op |-> op, req |-> req, pre |-> store,
              outcome |-> h.outcome, body |-> h.body, s |-> h.s]
  /\ setup' = [setup EXCEPT !.db_model =
                 IF op \in {"update", "delete_one"} /\ h.outcome = "ok"
                 THEN "instance" ELSE @]
  /\ UNCHANGED << router, procs >>

\* one request served by the router
Respond(op, req, h) ==
  /\ store' = h.db
  /\ resp' = [op |-> op, req |-> req, pre |-> store,
              outcome |-> h.outcome, body |-> h.body, s |-> h.s]
  /\ UNCHANGED << router, setup, procs >>

Serve(op, req) ==
  /\ op \in setup.routes
  /\ Respond(op, req, Route(router, op, store, req))

GetAll ==
  \E p \in Paginations : Serve("get_all", [NoRequest EXCEPT !.pagination = p])

GetOne ==
  \E id \in Keys : Serve("get_one", [NoRequest EXCEPT !.item_id = << id >>])

Create ==
  \E m \in CreateModels, f \in Faults :
    /\ "id" \in DOMAIN m \/ NextKey(store) <= MaxKey
    /\ Serve("create", [NoRequest EXCEPT !.model = m, !.fault = f])

Update ==
  \E id \in Keys, m \in UpdateModels, f \in Faults :
    Serve("update",
          [NoRequest EXCEPT !.item_id = << id >>, !.model = m, !.fault = f])

DeleteOne ==
  \E id \in Keys, f \in Faults :
    Serve("delete_one",
          [NoRequest EXCEPT !.item_id = << id >>, !.fault = f])

DeleteAll ==
  \E f \in Faults : Serve("delete_all", [NoRequest EXCEPT !.fault = f])

Next == Construct \/ GetAll \/ GetOne \/ Create \/ Update \/ DeleteOne \/ DeleteAll

Spec == Init /\ [][Next]_vars

\* ------------------------------------------------------------ type check
TypeOK ==
  /\ router \in {"sync", "async"}
  /\ setup.schema \in Schemas /\ setup.routes \subseteq Routes
  /\ store \subseteq Rows
  /\ Integrity(store)
  /\ resp.pre \subseteq Rows

\* ------------------------------------------------------------ properties
\* what the last request was about
ItemId == resp.req.item_id[1]
Payload == resp.req.model
\* the record the request's id named before the request, << >> if none
Target == RowOf(resp.pre, ItemId)
Ids(rows) == {r.id : r \in rows}
OtherRouter == IF router = "sync" THEN "async" ELSE "sync"
\* a get-one and an unlimited list issued on the table as it is now
GetOneNow(id) ==
  Route(router, "get_one", store, [NoRequest EXCEPT !.item_id = << id >>])
ListNow ==
  Route(router, "get_all", store,
        [NoRequest EXCEPT !.pagination = [skip |-> 0, limit |-> << >>]])

\* C1: list returns the records in ascending primary-key order with the
\* first skip dropped and at most limit kept (all the rest when limit is
\* unset); a skip at or past the number of records gives the empty
\* sequence, not an error; the table is left alone.
C1_ListPage ==
  resp.op = "get_all" =>
    LET skip == resp.req.pagination.skip
        limit == resp.req.pagination.limit
        n == Cardinality(resp.pre)
        left == IF skip >= n THEN 0 ELSE n - skip
        want == IF limit = << >> THEN left ELSE Min2(limit[1], left)
    IN /\ resp.outcome = "ok"
       /\ Len(resp.body) = want
       /\ \A i \in 1..want :
            /\ resp.body[i] \in resp.pre
            /\ Cardinality({r \in resp.pre : r.id < resp.body[i].id})
                 = skip + i - 1
       /\ store = resp.pre

\* a page that starts after the first record and is cut by the end of the
\* table rather than by the limit, on the non-blocking router
C1_Witness ==
  /\ resp.op = "get_all" /\ router = "async"
  /\ Cardinality(resp.pre) = 2
  /\ resp.req.pagination = [skip |-> 1, limit |-> << 2 >>]
  /\ Len(resp.body) = 1 /\ resp.body[1].id = 2

\* C2: create with the primary key of a persisted record fails with
\* Conflict after a rollback; the table still holds exactly that one
\* record under the key, unchanged, and that is what get-one and list show.
C2_CreateDuplicateKey ==
  (/\ resp.op = "create"
   /\ "id" \in DOMAIN Payload
   /\ Payload["id"] \in Ids(resp.pre)) =>
    LET old == RowOf(resp.pre, Payload["id"])
    IN /\ resp.outcome = "Conflict"
       /\ resp.body = << >>
       /\ resp.s.calls = << "add", "commit", "rollback" >>
       /\ resp.s.txn = "none" /\ ~resp.s.wrote
       /\ store = resp.pre
       /\ {r \in store : r.id = Payload["id"]} = {old[1]}
       /\ GetOneNow(Payload["id"]).body = old
       /\ ListNow.body = OrderBy(resp.pre)

\* a create that repeats a key with another name and a healthy backend
C2_Witness ==
  /\ resp.op = "create" /\ resp.req.fault = NoFault
  /\ "id" \in DOMAIN Payload /\ Payload["id"] \in Ids(resp.pre)
  /\ \A r \in resp.pre : r.name # Payload["name"]
  /\ resp.outcome = "Conflict"

\* C3: get-one, update and delete-one of an id no record has fail with
\* NotFound after the lookup alone: no write, no commit, table unchanged.
C3_NotFound ==
  (/\ resp.op \in {"get_one", "update", "delete_one"}
   /\ ItemId \notin Ids(resp.pre)) =>
    /\ resp.outcome = "NotFound"
    /\ resp.body = << >>
    /\ resp.s.calls = << "select" >>
    /\ ~resp.s.wrote
    /\ store = resp.pre

\* an update of a missing id while other records exist
C3_Witness ==
  /\ resp.op = "update" /\ ItemId \notin Ids(resp.pre)
  /\ resp.pre # {} /\ DOMAIN Payload # {}
  /\ resp.outcome = "NotFound"

\* C4: update never changes a primary key: the keys of the table are the
\* same after it, and the returned record has the key of the request.
C4_UpdateKeepsKey ==
  resp.op = "update" =>
    /\ Ids(store) = Ids(resp.pre)
    /\ resp.outcome = "ok" =>
         /\ Len(resp.body) = 1
         /\ resp.body[1].id = ItemId

\* a successful update whose payload carries another, unused primary key
C4_Witness ==
  /\ resp.op = "update" /\ resp.outcome = "ok"
  /\ "id" \in DOMAIN Payload
  /\ Payload["id"] # ItemId
  /\ Payload["id"] \notin Ids(resp.pre)
  /\ store # resp.pre

\* C5: the other router class, run on the same table with the same
\* request, gives the same outcome, the same body and the same table.
C5_SyncAsyncAgree ==
  resp.op # "none" =>
    Then(Route(OtherRouter, resp.op, resp.pre, resp.req), LAMBDA h :
      /\ h.outcome = resp.outcome
      /\ h.body = resp.body
      /\ h.db = store)

\* a delete-one that removed a record on the non-blocking router
C5_Witness ==
  /\ router = "async" /\ resp.op = "delete_one"
  /\ resp.outcome = "ok" /\ store # resp.pre

\* C6: a write handler that ends in a failure has rolled its session back:
\* rollback is its last session call and no transaction is left open.
C6_RollbackOnFailure ==
  (/\ resp.op \in {"create", "update", "delete_one", "delete_all"}
   /\ resp.outcome \in {"Conflict", "IntegrityError", "OperationalError"}) =>
    /\ Len(resp.s.calls) > 0
    /\ resp.s.calls[Len(resp.s.calls)] = "rollback"
    /\ resp.s.txn = "none"
    /\ ~resp.s.wrote

\* C7: the record a successful create returns is a complete row of the
\* table, and get-one of its key returns an equal record.
C7_CreateRoundTrip ==
  (resp.op = "create" /\ resp.outcome = "ok") =>
    /\ Len(resp.body) = 1
    /\ resp.body[1] \in Rows
    /\ resp.body[1] \in store
    /\ GetOneNow(resp.body[1].id).outcome = "ok"
    /\ GetOneNow(resp.body[1].id).body = resp.body

\* a create whose key and val were assigned by the backend
C7_Witness ==
  /\ resp.op = "create" /\ resp.outcome = "ok"
  /\ DOMAIN Payload = {"name"}
  /\ resp.pre # {}
  /\ resp.body[1].id = 2

\* C8: an update of an existing record is not failed by payload fields the
\* record type lacks: with a healthy backend and no name taken by another
\* record it succeeds, and then every column the payload names (the key
\* aside) has the payload's value, every other column its prior value, and
\* the returned record is the one now persisted.
C8_UpdateFieldSkip ==
  (resp.op = "update" /\ Target # << >>) =>
    LET old == Target[1]
        clash == /\ "name" \in DOMAIN Payload
                 /\ \E r \in resp.pre \ {old} : r.name = Payload["name"]
    IN /\ (resp.req.fault = NoFault /\ ~clash) => resp.outcome = "ok"
       /\ resp.outcome = "ok" =>
            /\ Len(resp.body) = 1
            /\ \A c \in Columns \ {pk} :
                 resp.body[1][c] =
                   IF c \in DOMAIN Payload THEN Payload[c] ELSE old[c]
            /\ resp.body[1][pk] = old[pk]
            /\ store = (resp.pre \ {old}) \cup {resp.body[1]}

\* a successful update with an unknown field, a new val and no name
C8_Witness ==
  /\ resp.op = "update" /\ resp.outcome = "ok"
  /\ DOMAIN Payload = {"val", "extra"}
  /\ Target # << >>
  /\ Target[1].val # Payload["val"]
  /\ resp.body[1].val = Payload["val"]
  /\ resp.body[1].name = Target[1].name

\* C9: an update whose commit is rejected for an integrity violation (the
\* new name is another record's name) fails with Conflict, and after any
\* update that failed with Conflict the table is as before it.
C9_UpdateConflict ==
  (resp.op = "update" /\ Target # << >>) =>
    LET old == Target[1]
        clash == /\ "name" \in DOMAIN Payload
                 /\ \E r \in resp.pre \ {old} : r.name = Payload["name"]
    IN /\ clash => resp.outcome = "Conflict"
       /\ resp.outcome = "Conflict" =>
            /\ store = resp.pre
            /\ resp.body = << >>
            /\ GetOneNow(ItemId).body = Target
            /\ ListNow.body = OrderBy(resp.pre)

\* an update that sets a new val and the name of another record
C9_Witness ==
  /\ resp.op = "update" /\ resp.outcome = "Conflict"
  /\ resp.req.fault = NoFault
  /\ Target # << >>
  /\ {"name", "val"} \subseteq DOMAIN Payload
  /\ Payload["val"] # Target[1].val
  /\ \E r \in resp.pre : r.id # ItemId /\ r.name = Payload["name"]

\* C10: delete-one of an existing record succeeds on a healthy backend,
\* returns the record as it was, removes that record and no other, and
\* get-one of the id then fails with NotFound.
C10_DeleteOne ==
  (resp.op = "delete_one" /\ Target # << >>) =>
    /\ resp.req.fault = NoFault => resp.outcome = "ok"
    /\ resp.outcome = "ok" =>
         /\ resp.body = Target
         /\ store = resp.pre \ {Target[1]}
         /\ GetOneNow(ItemId).outcome = "NotFound"

\* a delete-one that left another record in the table
C10_Witness ==
  /\ resp.op = "delete_one" /\ resp.outcome = "ok"
  /\ Cardinality(resp.pre) = 2
  /\ Cardinality(store) = 1
  /\ ItemId \notin Ids(store)


\* C11: with no other request in between, delete-all that succeeds leaves
\* the table empty whatever it held, returns the empty sequence, and an
\* unlimited list issued right after it returns the empty sequence; on a
\* healthy backend it always succeeds.
C11_DeleteAll ==
  resp.op = "delete_all" =>
    /\ resp.req.fault = NoFault => resp.outcome = "ok"
    /\ resp.outcome = "ok" =>
         /\ store = {}
         /\ resp.body = << >>
         /\ ListNow.outcome = "ok"
         /\ ListNow.body = << >>

\* a delete-all that emptied a table of two records
C11_Witness ==
  /\ resp.op = "delete_all" /\ resp.outcome = "ok"
  /\ Cardinality(resp.pre) = 2
  /\ store = {}

\* the get-one of the last request issued once more, on a session of its
\* own or on the session the first call left behind
GetOneAgain(s) ==
  Then(IF router = "sync" THEN Sync_get_one(store, s, ItemId)
       ELSE Async_get_one(store, s, ItemId), LAMBDA g :
    IF g.exc = "none" THEN Done(g, "ok", g.val) ELSE Raised(g))

\* C12: get-one leaves the table as it was, and a second get-one of the
\* same id with no write in between, on a new session or on the same one,
\* gives the same record or the same NotFound and again changes nothing.
C12_GetOneIdempotent ==
  resp.op = "get_one" =>
    /\ store = resp.pre
    /\ ~resp.s.wrote
    /\ resp.s.calls = << "select" >>
    /\ \A s \in {NewSession, resp.s} :
         /\ GetOneAgain(s).outcome = resp.outcome
         /\ GetOneAgain(s).body = resp.body
         /\ GetOneAgain(s).db = store

\* a get-one that found its record among two
C12_Witness ==
  /\ resp.op = "get_one" /\ resp.outcome = "ok"
  /\ Cardinality(resp.pre) = 2
  /\ resp.body = Target


\* the session calls of the last request, as a set
CallsMade == {resp.s.calls[i] : i \in 1..Len(resp.s.calls)}
\* the write of the last request breaks the primary key or unique(name)
DataClash ==
  \/ /\ resp.op = "create"
     /\ \E r \in resp.pre :
          \/ r.id = InsertRow(resp.pre, Payload).id
          \/ r.name = Payload["name"]
  \/ /\ resp.op = "update"
     /\ Target # << >>
     /\ "name" \in DOMAIN Payload
     /\ \E r \in resp.pre \ {Target[1]} : r.name = Payload["name"]

Rank(c) ==
  CASE c = "select" -> 1
    [] c = "setattr" -> 2
    [] c = "commit" -> 3
    [] c \in {"refresh", "rollback"} -> 4
    [] OTHER -> 0

\* C15: an update looks the record up first, then assigns, then commits,
\* then refreshes, each at most once and in that order in the synchronous
\* and in the asynchronous router; after a failed lookup nothing else is
\* called and nothing is written.
C15_UpdateOrder ==
  resp.op = "update" =>
    /\ Len(resp.s.calls) >= 1 /\ resp.s.calls[1] = "select"
    /\ \A i, j \in 1..Len(resp.s.calls) :
         i < j => Rank(resp.s.calls[i]) < Rank(resp.s.calls[j])
    /\ \A i \in 1..Len(resp.s.calls) : Rank(resp.s.calls[i]) > 0
    /\ resp.outcome = "NotFound" =>
         /\ resp.s.calls = << "select" >>
         /\ ~resp.s.wrote /\ store = resp.pre
    /\ resp.outcome = "ok" =>
         resp.s.calls \in {<< "select", "commit", "refresh" >>,
                           << "select", "setattr", "commit", "refresh" >>}
    /\ (Target # << >> /\ DOMAIN update_items(Target[1], Payload) # {}) =>
         /\ Len(resp.s.calls) >= 3
         /\ resp.s.calls[2] = "setattr" /\ resp.s.calls[3] = "commit"

\* an update that ran all four steps
C15_Witness ==
  /\ resp.op = "update" /\ resp.outcome = "ok"
  /\ resp.s.calls = << "select", "setattr", "commit", "refresh" >>
  /\ store # resp.pre

\* an update of an absent record
C15_WitnessNotFound ==
  resp.op = "update" /\ resp.outcome = "NotFound" /\ resp.pre # {}


\* how many times the last request made session call c
Count(c) == Cardinality({i \in 1..Len(resp.s.calls) : resp.s.calls[i] = c})

\* C16: no handler retries: a write request commits at most once (and
\* adds, refreshes and rolls back at most once), a read request never
\* commits; after an integrity violation in create or update there is one
\* rollback, it is the last session call, and the store is as before.
C16_NoRetry ==
  resp.op # "none" =>
    /\ Count("commit") <= 1 /\ Count("add") <= 1
    /\ Count("refresh") <= 1 /\ Count("rollback") <= 1
    /\ resp.op \in {"get_all", "get_one"} => Count("commit") = 0
    /\ (resp.op \in {"create", "update", "delete_one", "delete_all"}
        /\ resp.outcome = "ok") => Count("commit") = 1
    /\ resp.outcome = "Conflict" =>
         /\ Count("rollback") = 1
         /\ resp.s.calls[Len(resp.s.calls)] = "rollback"
         /\ Count("refresh") = 0
         /\ store = resp.pre
    /\ Count("rollback") = 1 => resp.outcome = "Conflict"

\* a create refused for a key that exists: one add, one commit, one rollback
C16_Witness ==
  /\ resp.op = "create" /\ router = "async"
  /\ resp.outcome = "Conflict"
  /\ resp.req.fault = NoFault
  /\ resp.s.calls = << "add", "commit", "rollback" >>


\* C14: a router constructed with a read schema that lacks the primary key
\* of the table fails with SchemaMismatch in the constructor, before the
\* handlers are generated: it has no route and never serves a request. A
\* schema that has the key gives a router with the six routes.
C14_SchemaMismatch ==
  /\ ~setup.done => setup.routes = {} /\ resp.op = "none" /\ store = {}
  /\ (setup.done /\ pk \notin setup.schema) =>
       /\ setup.error = "SchemaMismatch"
       /\ setup.routes = {}
       /\ resp.op = "none" /\ store = {}
  /\ (setup.done /\ pk \in setup.schema) =>
       /\ setup.error = "none"
       /\ setup.routes = Routes
       /\ setup.pk_type = "int"

\* a construction that failed
C14_Witness ==
  /\ setup.done /\ setup.error = "SchemaMismatch"
  /\ pk \notin setup.schema

\* the attributes the constructor sets
Configured ==
  /\ setup.db_model = "db_model" /\ setup.db_func = "db"
  /\ setup.pk = pk /\ setup.pk_type = "int"

\* C20: record type, session provider, key name and key type are set by the
\* constructor before a route exists, and no request changes them or
\* anything else on the router object; only requests change the table.
C20_ConfigFixed ==
  [][/\ setup.routes # {} => Configured
     /\ setup.done => setup' = setup
     /\ router' = router
     /\ resp' # resp => (setup.done /\ Configured /\ setup' = setup)
     /\ setup' # setup => (resp' = resp /\ store' = store)]_vars

\* a second request on a router that is still as constructed
C20_Witness ==
  /\ resp.op = "delete_one" /\ resp.outcome = "ok"
  /\ Cardinality(resp.pre) = 2
  /\ Configured /\ setup.routes = Routes


\* ------------------------------------------------- requests in flight
\* Several requests at once, each on the session Depends(self.db_func)
\* gives it. A handler is a sequence of backend round trips, and the round
\* trips of different requests interleave: the SELECT of a lookup, the
\* statement a flush sends, COMMIT, the SELECT of a refresh or of the relist,
\* ROLLBACK. The backend is READ COMMITTED with row locks: a statement sees
\* the committed rows, a write waits while another open transaction holds
\* an uncommitted write of the same key or the same unique name, and COMMIT
\* publishes the writes of the transaction.
MaxProcs == 2

ConcStores == {{}, {[id |-> 1, name |-> "a", val |-> 0]}}

ConcRequests ==
  << [op |-> "create", item_id |-> << >>, model |-> [id |-> 1, name |-> "a"]],
     [op |-> "create", item_id |-> << >>, model |-> [id |-> 1, name |-> "b"]],
     [op |-> "create", item_id |-> << >>, model |-> [id |-> 2, name |-> "b"]],
     [op |-> "update", item_id |-> << 1 >>, model |-> [val |-> 1]],
     [op |-> "update", item_id |-> << 1 >>, model |-> [val |-> 0]],
     [op |-> "delete_one", item_id |-> << 1 >>, model |-> NoDict],
     [op |-> "delete_all", item_id |-> << >>, model |-> NoDict] >>

\* the requests sent together, as indices into ConcRequests
Scenarios ==
  {sc \in UNION {[1..n -> 1..Len(ConcRequests)] : n \in 1..MaxProcs} :
     \A i, j \in DOMAIN sc : i < j => sc[i] <= sc[j]}

\* the first round trip of a handler
FirstStep(op) == IF op \in {"update", "delete_one"} THEN "lookup" ELSE "flush"

\* a request that has not started: inst is the instance the lookup loaded,
\* key the key of the flushed instance, ins and del the uncommitted writes
\* of its transaction, after the requests that had committed when it
\* committed, seen those that had committed when it read its result
Proc(req, pre) ==
  [req |-> req, pc |-> FirstStep(req.op), inst |-> << >>, key |-> << >>,
   ins |-> {}, del |-> {}, committed |-> FALSE, after |-> {}, seen |-> {},
   outcome |-> "none", body |-> << >>, pre |-> pre]

Committed(ps) == {i \in DOMAIN ps : ps[i].committed}


\* the statements the unit of work holds when the handler calls commit()
Pending(p) ==
  CASE p.req.op = "create" -> Session_add(NewSession, p.req.model).pending
    [] p.req.op = "update" ->
         Session_setattr(NewSession, p.inst[1],
                         update_items(p.inst[1], p.req.model)).pending
    [] p.req.op = "delete_one" ->
         Session_delete(NewSession, p.inst[1]).pending
    [] OTHER -> << >>

\* the keys and the unique names the next write of p touches
TouchedKeys(db, p) ==
  IF p.req.op = "delete_all" THEN {r.id : r \in db}
  ELSE IF Pending(p) = << >> THEN {}
  ELSE IF p.req.op = "create" THEN {InsertRow(db, p.req.model).id}
  ELSE {Pending(p)[1].key}

TouchedNames(db, p) ==
  IF p.req.op = "create" THEN {p.req.model["name"]}
  ELSE IF p.req.op = "update" /\ Pending(p) # << >>
          /\ "name" \in DOMAIN Pending(p)[1].set
  THEN {Pending(p)[1].set["name"]}
  ELSE {}

\* the write of ps[i] waits for a lock another open transaction holds
Blocked(ps, db, i) ==
  \E j \in DOMAIN ps \ {i} : \E r \in ps[j].ins \cup ps[j].del :
    r.id \in TouchedKeys(db, ps[i]) \/ r.name \in TouchedNames(db, ps[i])

\* self._get_one()(item_id, db) of update and delete-one
Lookup(variant, db, p) ==
  Then(IF variant = "sync"
       THEN Sync_get_one(db, NewSession, p.req.item_id[1])
       ELSE Async_get_one(db, NewSession, p.req.item_id[1]), LAMBDA g :
    IF g.exc # "none"
    THEN [p EXCEPT !.pc = "done", !.outcome = Raised(g).outcome]
    ELSE [p EXCEPT !.pc = "flush", !.inst = g.val])

\* mutant of OnFlushError: no except clause
OnFlushError_no_except(p, exc) == [p EXCEPT !.pc = "done", !.outcome = exc]

\* what the handler does with an exception of commit(): create and update
\* catch IntegrityError, everything else leaves the handler
OnFlushError(p, exc) ==
  IF exc = "IntegrityError" /\ p.req.op \in {"create", "update"}
  THEN [p EXCEPT !.pc = "rollback"]
  ELSE [p EXCEPT !.pc = "done", !.outcome = exc]

\* mutant of Flush: an update whose row is gone writes the instance again
Flush_merge(db, p) ==
  IF p.req.op = "delete_all" THEN [p EXCEPT !.del = db, !.pc = "commit"]
  ELSE IF Pending(p) = << >> THEN [p EXCEPT !.pc = "commit"]
  ELSE Then(Statement(db, Pending(p)[1], NoFault), LAMBDA r :
         IF r.exc = "StaleDataError"
         THEN [p EXCEPT !.ins = {[c \in Columns |->
                                   Get(Pending(p)[1].set, c, p.inst[1][c])]},
                        !.key = << p.inst[1].id >>, !.pc = "commit"]
         ELSE IF r.exc # "none" THEN OnFlushError(p, r.exc)
         ELSE [p EXCEPT !.ins = r.rows \ db, !.del = db \ r.rows,
                        !.key = r.key, !.pc = "commit"])

\* the first half of commit(), and the bulk DELETE of delete-all: the
\* statement runs on the committed rows and its writes stay uncommitted
Flush(db, p) ==
  IF p.req.op = "delete_all" THEN [p EXCEPT !.del = db, !.pc = "commit"]
  ELSE IF Pending(p) = << >> THEN [p EXCEPT !.pc = "commit"]
  ELSE Then(Statement(db, Pending(p)[1], NoFault), LAMBDA r :
         IF r.exc # "none" THEN OnFlushError(p, r.exc)
         ELSE [p EXCEPT !.ins = r.rows \ db, !.del = db \ r.rows,
                        !.key = r.key, !.pc = "commit"])

\* the table after the COMMIT of p
Publish(db, p) == (db \ p.del) \cup p.ins

\* the second half of commit(): COMMIT; delete-one then returns the
\* instance it loaded
Commit(ps, p) ==
  Then([p EXCEPT !.ins = {}, !.del = {}, !.committed = TRUE,
                 !.after = Committed(ps)], LAMBDA q :
    IF p.req.op = "delete_one"
    THEN [q EXCEPT !.pc = "done", !.outcome = "ok", !.body = p.inst]
    ELSE IF p.req.op = "delete_all" THEN [q EXCEPT !.pc = "relist"]
    ELSE [q EXCEPT !.pc = "refresh"])

\* db.refresh(db_model) of create and update, and the return
Refresh(ps, db, p) ==
  Then(Session_refresh(db, NewSession,
                       IF p.key = << >> THEN p.req.item_id[1] ELSE p.key[1]),
       LAMBDA r :
         [p EXCEPT !.pc = "done", !.seen = Committed(ps),
                   !.outcome = IF r.exc = "none" THEN "ok" ELSE r.exc,
                   !.body = r.val])

\* db.rollback() and the raise of the except clause
Rollback(p) ==
  [p EXCEPT !.ins = {}, !.del = {}, !.pc = "done", !.outcome = "Conflict"]

\* self._get_all()(db=db, pagination={"skip": 0, "limit": None})
Relist(variant, ps, db, p) ==
  Then(IF variant = "sync"
       THEN Sync_get_all(db, NewSession, [skip |-> 0, limit |-> << >>])
       ELSE Async_get_all(db, NewSession, [skip |-> 0, limit |-> << >>]),
       LAMBDA l :
         [p EXCEPT !.pc = "done", !.seen = Committed(ps),
                   !.outcome = l.outcome, !.body = l.body])

InitConc ==
  /\ router \in {"sync", "async"}
  /\ setup = SQLAlchemyCRUDRouter_init(Unset({"id", "name", "val"}))
  /\ store \in ConcStores
  /\ resp = [op |-> "none", req |-> NoRequest, pre |-> {},
             outcome |-> "ok", body |-> << >>, s |-> NewSession]
  /\ procs \in {[i \in DOMAIN sc |-> Proc(ConcRequests[sc[i]], store)] :
                  sc \in Scenarios}

\* request i is at round trip pc and its route exists
At(i, pc) == procs[i].pc = pc /\ procs[i].req.op \in setup.routes

ConcLookup ==
  \E i \in DOMAIN procs :
    /\ At(i, "lookup")
    /\ procs' = [procs EXCEPT ![i] = Lookup(router, store, procs[i])]
    /\ UNCHANGED << router, setup, store, resp >>

ConcFlush ==
  \E i \in DOMAIN procs :
    /\ At(i, "flush")
    /\ ~Blocked(procs, store, i)
    /\ procs' = [procs EXCEPT ![i] = Flush(store, procs[i])]
    /\ UNCHANGED << router, setup, store, resp >>

ConcCommit ==
  \E i \in DOMAIN procs :
    /\ At(i, "commit")
    /\ store' = Publish(store, procs[i])
    /\ procs' = [procs EXCEPT ![i] = Commit(procs, procs[i])]
    /\ UNCHANGED << router, setup, resp >>

ConcRefresh ==
  \E i \in DOMAIN procs :
    /\ At(i, "refresh")
    /\ procs' = [procs EXCEPT ![i] = Refresh(procs, store, procs[i])]
    /\ UNCHANGED << router, setup, store, resp >>

ConcRollback ==
  \E i \in DOMAIN procs :
    /\ At(i, "rollback")
    /\ procs' = [procs EXCEPT ![i] = Rollback(procs[i])]
    /\ UNCHANGED << router, setup, store, resp >>

ConcRelist ==
  \E i \in DOMAIN procs :
    /\ At(i, "relist")
    /\ procs' = [procs EXCEPT ![i] = Relist(router, procs, store, procs[i])]
    /\ UNCHANGED << router, setup, store, resp >>

NextConc ==
  \/ ConcLookup \/ ConcFlush \/ ConcCommit
  \/ ConcRefresh \/ ConcRollback \/ ConcRelist

SpecConc == InitConc /\ [][NextConc]_vars

\* every request has returned or raised
AllDone == \A i \in DOMAIN procs : procs[i].pc = "done"

TypeOKConc ==
  /\ store \subseteq Rows /\ Integrity(store)
  /\ \A i \in DOMAIN procs :
       /\ procs[i].ins \subseteq Rows /\ procs[i].del \subseteq store
       /\ procs[i].pc = "done" => procs[i].ins \cup procs[i].del = {}
       /\ procs[i].outcome \in
            {"none", "ok", "NotFound", "Conflict", "StaleDataError",
             "InvalidRequestError"}


\* the rows of a returned list
Listed(body) == {body[k] : k \in 1..Len(body)}

\* C17: with only create requests beside it, the list a delete-all returns
\* holds only records whose insert committed after the COMMIT of the
\* delete-all.
C17_DeleteAllReturn ==
  \A i \in DOMAIN procs :
    (/\ procs[i].req.op = "delete_all"
     /\ procs[i].pc = "done" /\ procs[i].outcome = "ok"
     /\ \A j \in DOMAIN procs \ {i} : procs[j].req.op = "create") =>
      \A r \in Listed(procs[i].body) :
        \E j \in DOMAIN procs :
          /\ procs[j].req.op = "create" /\ procs[j].committed
          /\ r = InsertRow({}, procs[j].req.model)
          /\ i \in procs[j].after


\* the two requests in flight are creates whose payloads carry the same key
TwoCreatesSameKey ==
  /\ Len(procs) = 2
  /\ \A i \in {1, 2} :
       procs[i].req.op = "create" /\ "id" \in DOMAIN procs[i].req.model
  /\ procs[1].req.model["id"] = procs[2].req.model["id"]

\* request w got the record, the other one Conflict, and the table holds
\* the record w returned under that key
OneWins(w) ==
  /\ procs[w].outcome = "ok"
  /\ procs[3 - w].outcome = "Conflict"
  /\ {r \in store : r.id = procs[w].req.model["id"]}
       = Listed(procs[w].body)
  /\ Len(procs[w].body) = 1

\* C18 as stated: of two concurrent creates with the same primary key
\* exactly one succeeds, the other fails with Conflict, and the table ends
\* with one record of that key, the one the successful request returned.
C18_ConcurrentCreate ==
  (TwoCreatesSameKey /\ AllDone) => (OneWins(1) \/ OneWins(2))

\* the table held no record with the key or with the name of either
\* payload when the two requests came in
FreshKeyAndNames ==
  \A i \in {1, 2} : \A r \in procs[i].pre :
    /\ r.id # procs[i].req.model["id"]
    /\ r.name # procs[i].req.model["name"]

\* C18 amended: when no persisted record has the key or the name of either
\* payload, exactly one of the two creates succeeds, the other fails with
\* Conflict and has written nothing, and the table ends with one record of
\* that key, the one the successful request returned.
C18_ConcurrentCreateFresh ==
  (TwoCreatesSameKey /\ FreshKeyAndNames) =>
    /\ AllDone => (OneWins(1) \/ OneWins(2))
    /\ Cardinality({r \in store : r.id = procs[1].req.model["id"]}) <= 1
    /\ \A i \in {1, 2} :
         procs[i].outcome \in {"none", "ok", "Conflict"}

\* the second request won and the first, with another name, got Conflict
C18_Witness ==
  /\ TwoCreatesSameKey /\ FreshKeyAndNames /\ AllDone
  /\ procs[1].req.model["name"] # procs[2].req.model["name"]
  /\ OneWins(2)


\* request d deletes the record with key k
Deletes(d, k) ==
  \/ procs[d].req.op = "delete_all"
  \/ procs[d].req.op = "delete_one" /\ procs[d].req.item_id[1] = k

\* no request in flight creates a record with key k
NoCreateOf(k) ==
  \A j \in DOMAIN procs :
    procs[j].req.op = "create" => procs[j].req.model["id"] # k

\* C19: an update never brings a deleted record back. With update(k) and a
\* delete-one(k) or delete-all in flight together, once the delete has
\* committed no record with key k exists, whatever the update had done or
\* does next, and an update that reports success read its record back
\* before the delete committed.
C19_NoResurrection ==
  \A u, d \in DOMAIN procs :
    (/\ procs[u].req.op = "update"
     /\ Deletes(d, procs[u].req.item_id[1])
     /\ NoCreateOf(procs[u].req.item_id[1])) =>
      /\ procs[d].committed =>
           \A r \in store : r.id # procs[u].req.item_id[1]
      /\ procs[u].outcome = "ok" =>
           /\ d \notin procs[u].seen
           /\ procs[u].body[1].id = procs[u].req.item_id[1]

\* the delete committed between the lookup of the update and its commit:
\* the UPDATE matches no row and the update fails
C19_Witness ==
  \E u, d \in DOMAIN procs :
    /\ procs[u].req.op = "update" /\ procs[d].req.op = "delete_one"
    /\ procs[u].inst # << >>
    /\ procs[d].committed /\ procs[d].outcome = "ok"
    /\ procs[u].pc = "done" /\ procs[u].outcome = "StaleDataError"
    /\ store = {}

====
